---- MODULE Spec2Model ----
(***************************************************************************)
(* Sleep scheduling of the Low Power LED mesh node (low_power_led.c).      *)
(*                                                                         *)
(* The application keeps one record, app_state, and a one-time latch,      *)
(* do_not_init_again.  The mesh library calls mesh_app_init, the LPN sleep *)
(* hook mesh_low_power_led_lpn_sleep and the on/off message handler; the   *)
(* power manager calls mesh_low_power_led_sleep_poll; the platform timer   *)
(* calls wakeup_timer_cb.  All of them run on one non-preemptive context,  *)
(* so each call is one atomic step.                                        *)
(*                                                                         *)
(* The file compiles in two ways (#if defined(CYW20835B1)); build selects  *)
(* which and never changes.                                                *)
(***************************************************************************)
EXTENDS Integers, Sequences, FiniteSets, TLC

VARIABLES
    build,              \* "DEFAULT" or "CYW20835B1": which #if branch is compiled
    app_state,          \* mesh_low_power_led_t app_state
    do_not_init_again,  \* the one-time latch of mesh_app_init
    platform,           \* what the SDK holds: registrations, HID-off, the LED
    elapsed,            \* ms since the wake timer was last started
    last,               \* the latest call: its inputs, its answer, the requests it issued
    hist                \* history: what happened since the latest schedule call

vars == <<build, app_state, do_not_init_again, platform, elapsed, last, hist>>

(***************************************************************************)
(* Program constants                                                       *)
(***************************************************************************)
MESH_LPN_STATE_NOT_IDLE == 0
MESH_LPN_STATE_IDLE == 1

\* if (max_sleep_duration < 120000)//2mins
HID_OFF_THRESHOLD == 120000

\* The SDK's "no limit" value, the largest uint32_t.  TLC's integers end at
\* 2^31 - 1, so the model takes the largest value it can hold: the code only
\* compares it (!=, <) and returns it, and this value, like the SDK's, is
\* above the threshold and differs from every other duration and answer.
WICED_SLEEP_MAX_TIME_TO_SLEEP == 2147483647
WICED_SLEEP_NOT_ALLOWED == 0
WICED_SLEEP_ALLOWED_WITHOUT_SHUTDOWN == 1
WICED_SLEEP_ALLOWED_WITH_SHUTDOWN == 2

WICED_SLEEP_POLL_TIME_TO_SLEEP == "WICED_SLEEP_POLL_TIME_TO_SLEEP"
WICED_SLEEP_POLL_SLEEP_PERMISSION == "WICED_SLEEP_POLL_SLEEP_PERMISSION"
WICED_BT_MESH_ONOFF_STATUS == "WICED_BT_MESH_ONOFF_STATUS"
WICED_GPIO_PIN_BUTTON == "WICED_GPIO_PIN_BUTTON"
WICED_SLEEP_WAKE_SOURCE_GPIO == "WICED_SLEEP_WAKE_SOURCE_GPIO"

Builds == {"DEFAULT", "CYW20835B1"}

(***************************************************************************)
(* Bounds of the model                                                     *)
(***************************************************************************)
\* time advances by this much, or straight to the wake timer's deadline
TickQuantum == 20000

\* the durations the mesh engine asks for: zero, Scenario C's 30 s and 50 s,
\* both sides of the threshold, Scenario B's 180 s, and the unbounded sentinel
Durations ==
    {0, 30000, 50000, HID_OFF_THRESHOLD - 1, HID_OFF_THRESHOLD, 180000,
     WICED_SLEEP_MAX_TIME_TO_SLEEP}

PollTypes == {WICED_SLEEP_POLL_TIME_TO_SLEEP, WICED_SLEEP_POLL_SLEEP_PERMISSION}

\* events the models library delivers to the message handler
Events == {WICED_BT_MESH_ONOFF_STATUS, "OTHER_EVENT"}

(***************************************************************************)
(* The platform timer (wiced_timer_t, WICED_MILLI_SECONDS_TIMER): one      *)
(* single-shot countdown.                                                  *)
(***************************************************************************)
TimerStopped == [armed |-> FALSE, duration |-> 0, remaining |-> 0]

wiced_stop_timer(t) == TimerStopped

wiced_start_timer(t, timeout) ==
    [armed |-> TRUE, duration |-> timeout, remaining |-> timeout]

(***************************************************************************)
(* app_state = { 0 }                                                       *)
(***************************************************************************)
NoSleepConfig ==
    [registered |-> FALSE, device_wake_source |-> "", device_wake_gpio |-> ""]

InitAppState ==
    [present_onoff    |-> 0,
     target_onoff     |-> 0,
     lpn_sleep_config |-> NoSleepConfig,
     lpn_wake_timer   |-> TimerStopped,
     lpn_state        |-> MESH_LPN_STATE_NOT_IDLE]

InitPlatform ==
    [sleep_configure_calls |-> 0,      \* calls of wiced_sleep_configure since boot
     sleep_permit_handler  |-> FALSE,  \* the poll callback is registered
     init_timer_calls      |-> 0,      \* calls of wiced_init_timer since boot
     onoff_handler         |-> FALSE,  \* the message handler is registered
     hid_off               |-> FALSE,  \* the chip is in HID-off
     led                   |-> 0]      \* the level the LED driver was last given

NoCall ==
    [op |-> "boot", d |-> -1, type |-> "", ret |-> -1, event |-> "",
     hid |-> << >>, hid_result |-> "none", led |-> << >>, timer_ops |-> << >>]

InitHist ==
    [woken    |-> FALSE,   \* a wake event happened and no schedule call since
     fires    |-> 0,       \* expiry callbacks since the latest schedule call
     fired_at |-> -1,      \* elapsed at the latest expiry callback
     sched_d  |-> -1,      \* duration of the latest schedule call since boot
     rearm    |-> << >>,   \* <<d1, d2>>: schedule(d2) came while d1 was pending
     epoch    |-> 0]       \* flips at every schedule call

(***************************************************************************)
(* mesh_app_init: everything it does to the sleep machinery.  The models   *)
(* library is handed the message handler on every call; the sleep          *)
(* configuration and the wake timer are set up behind the latch.           *)
(* configure_ok is the result of wiced_sleep_configure.                    *)
(***************************************************************************)
SleepConfig ==
    [registered         |-> TRUE,
     device_wake_source |-> WICED_SLEEP_WAKE_SOURCE_GPIO,
     device_wake_gpio   |-> WICED_GPIO_PIN_BUTTON]

\* Variants of mesh_app_init with one slip each.
\* The latch is not tested: every call configures sleep and creates the timer.
mesh_app_init_ignores_latch(a, latch, p, is_provisioned, configure_ok) ==
    [app_state |->
        [a EXCEPT !.lpn_sleep_config = SleepConfig,
                  !.lpn_wake_timer = TimerStopped],
     do_not_init_again |-> TRUE,
     platform |->
        [p EXCEPT !.onoff_handler = TRUE,
                  !.sleep_configure_calls = @ + 1,
                  !.sleep_permit_handler = configure_ok,
                  !.init_timer_calls = @ + 1]]

\* The first call also marks the node idle ("the device is idle now").
mesh_app_init_sets_idle(a, latch, p, is_provisioned, configure_ok) ==
    LET p1 == [p EXCEPT !.onoff_handler = TRUE]
    IN  IF ~latch
        THEN [app_state |->
                 [a EXCEPT !.lpn_sleep_config = SleepConfig,
                           !.lpn_wake_timer = TimerStopped,
                           !.lpn_state = MESH_LPN_STATE_IDLE],
              do_not_init_again |-> TRUE,
              platform |->
                 [p1 EXCEPT !.sleep_configure_calls = @ + 1,
                            !.sleep_permit_handler = configure_ok,
                            !.init_timer_calls = @ + 1]]
        ELSE [app_state |-> a, do_not_init_again |-> latch, platform |-> p1]

mesh_app_init(a, latch, p, is_provisioned, configure_ok) ==
    LET p1 == [p EXCEPT !.onoff_handler = TRUE]
    IN  IF ~latch
        THEN [app_state |->
                 [a EXCEPT !.lpn_sleep_config = SleepConfig,
                           !.lpn_wake_timer = TimerStopped],
              do_not_init_again |-> TRUE,
              platform |->
                 [p1 EXCEPT !.sleep_configure_calls = @ + 1,
                            !.sleep_permit_handler = configure_ok,
                            !.init_timer_calls = @ + 1]]
        ELSE [app_state |-> a, do_not_init_again |-> latch, platform |-> p1]

(***************************************************************************)
(* mesh_low_power_led_lpn_sleep.  Returns the new app_state, the HID-off   *)
(* requests issued and the timer calls made, in order.                     *)
(***************************************************************************)
RearmWakeTimer(a, max_sleep_duration) ==
    [app_state |->
        [a EXCEPT !.lpn_wake_timer =
                      wiced_start_timer(wiced_stop_timer(@), max_sleep_duration),
                  !.lpn_state = MESH_LPN_STATE_IDLE],
     hid |-> << >>,
     timer_ops |-> <<"stop", "start">>]

\* CYW20835B1 with the "no limit" duration: only the state is set
IdleWithoutTimer(a) ==
    [app_state |-> [a EXCEPT !.lpn_state = MESH_LPN_STATE_IDLE],
     hid |-> << >>,
     timer_ops |-> << >>]

HidOffRequest(max_sleep_duration) ==
    [wakeup_time |-> max_sleep_duration, wake_gpio |-> WICED_GPIO_PIN_BUTTON,
     gpio_active_level |-> 1]

EnterHidOff(a, max_sleep_duration) ==
    [app_state |-> a,
     hid |-> <<HidOffRequest(max_sleep_duration)>>,
     timer_ops |-> << >>]

\* Variants of mesh_low_power_led_lpn_sleep with one slip each.
\* Rearming forgets app_state.lpn_state = MESH_LPN_STATE_IDLE.
lpn_sleep_forgets_idle(b, a, max_sleep_duration) ==
    LET rearmed == [RearmWakeTimer(a, max_sleep_duration)
                       EXCEPT !.app_state.lpn_state = a.lpn_state]
    IN  IF b = "CYW20835B1"
        THEN IF max_sleep_duration # WICED_SLEEP_MAX_TIME_TO_SLEEP
             THEN rearmed
             ELSE IdleWithoutTimer(a)
        ELSE IF max_sleep_duration < HID_OFF_THRESHOLD
             THEN rearmed
             ELSE EnterHidOff(a, max_sleep_duration)

\* The HID-off branch also stops the wake timer and sets IDLE.
lpn_sleep_hid_off_sets_idle(b, a, max_sleep_duration) ==
    IF b = "CYW20835B1"
    THEN IF max_sleep_duration # WICED_SLEEP_MAX_TIME_TO_SLEEP
         THEN RearmWakeTimer(a, max_sleep_duration)
         ELSE IdleWithoutTimer(a)
    ELSE IF max_sleep_duration < HID_OFF_THRESHOLD
         THEN RearmWakeTimer(a, max_sleep_duration)
         ELSE [app_state |-> [a EXCEPT !.lpn_wake_timer = wiced_stop_timer(@),
                                       !.lpn_state = MESH_LPN_STATE_IDLE],
               hid |-> <<HidOffRequest(max_sleep_duration)>>,
               timer_ops |-> <<"stop">>]

\* The HID-off branch asks the platform a second time.
lpn_sleep_hid_off_retries(b, a, max_sleep_duration) ==
    IF b = "CYW20835B1"
    THEN IF max_sleep_duration # WICED_SLEEP_MAX_TIME_TO_SLEEP
         THEN RearmWakeTimer(a, max_sleep_duration)
         ELSE IdleWithoutTimer(a)
    ELSE IF max_sleep_duration < HID_OFF_THRESHOLD
         THEN RearmWakeTimer(a, max_sleep_duration)
         ELSE [EnterHidOff(a, max_sleep_duration)
                  EXCEPT !.hid = <<HidOffRequest(max_sleep_duration),
                                   HidOffRequest(max_sleep_duration)>>]

\* A pending wake timer is left running instead of being stopped and restarted.
lpn_sleep_keeps_pending_timer(b, a, max_sleep_duration) ==
    LET rearmed == IF a.lpn_wake_timer.armed
                   THEN IdleWithoutTimer(a)
                   ELSE RearmWakeTimer(a, max_sleep_duration)
    IN  IF b = "CYW20835B1"
        THEN IF max_sleep_duration # WICED_SLEEP_MAX_TIME_TO_SLEEP
             THEN rearmed
             ELSE IdleWithoutTimer(a)
        ELSE IF max_sleep_duration < HID_OFF_THRESHOLD
             THEN rearmed
             ELSE EnterHidOff(a, max_sleep_duration)

\* The threshold test is <= where the code has <.
lpn_sleep_threshold_inclusive(b, a, max_sleep_duration) ==
    IF b = "CYW20835B1"
    THEN IF max_sleep_duration # WICED_SLEEP_MAX_TIME_TO_SLEEP
         THEN RearmWakeTimer(a, max_sleep_duration)
         ELSE IdleWithoutTimer(a)
    ELSE IF max_sleep_duration <= HID_OFF_THRESHOLD
         THEN RearmWakeTimer(a, max_sleep_duration)
         ELSE EnterHidOff(a, max_sleep_duration)

\* CYW20835B1: the timer is stopped before the "no limit" test.
lpn_sleep_sentinel_stops_timer(b, a, max_sleep_duration) ==
    IF b = "CYW20835B1"
    THEN IF max_sleep_duration # WICED_SLEEP_MAX_TIME_TO_SLEEP
         THEN RearmWakeTimer(a, max_sleep_duration)
         ELSE [app_state |-> [a EXCEPT !.lpn_wake_timer = wiced_stop_timer(@),
                                       !.lpn_state = MESH_LPN_STATE_IDLE],
               hid |-> << >>,
               timer_ops |-> <<"stop">>]
    ELSE IF max_sleep_duration < HID_OFF_THRESHOLD
         THEN RearmWakeTimer(a, max_sleep_duration)
         ELSE EnterHidOff(a, max_sleep_duration)

mesh_low_power_led_lpn_sleep(b, a, max_sleep_duration) ==
    IF b = "CYW20835B1"
    THEN IF max_sleep_duration # WICED_SLEEP_MAX_TIME_TO_SLEEP
         THEN RearmWakeTimer(a, max_sleep_duration)
         ELSE IdleWithoutTimer(a)
    ELSE IF max_sleep_duration < HID_OFF_THRESHOLD
         THEN RearmWakeTimer(a, max_sleep_duration)
         ELSE EnterHidOff(a, max_sleep_duration)

(***************************************************************************)
(* wakeup_timer_cb                                                         *)
(***************************************************************************)
\* Variants of wakeup_timer_cb with one slip each.
\* The callback stops the timer but leaves lpn_state as it was.
wakeup_timer_cb_keeps_state(a) ==
    [a EXCEPT !.lpn_wake_timer = wiced_stop_timer(@)]

\* The callback sets NOT_IDLE but does not stop the timer.
wakeup_timer_cb_no_stop(a) ==
    [a EXCEPT !.lpn_state = MESH_LPN_STATE_NOT_IDLE]

wakeup_timer_cb(a) ==
    [a EXCEPT !.lpn_state = MESH_LPN_STATE_NOT_IDLE,
              !.lpn_wake_timer = wiced_stop_timer(@)]

(***************************************************************************)
(* mesh_low_power_led_sleep_poll: the answer, and app_state after it.      *)
(***************************************************************************)
\* Variants of mesh_low_power_led_sleep_poll with one slip each.
\* TIME_TO_SLEEP tests for IDLE where the code tests for NOT_IDLE.
sleep_poll_time_inverted(b, a, type) ==
    [app_state |-> a,
     ret |->
        IF type = WICED_SLEEP_POLL_TIME_TO_SLEEP
        THEN IF a.lpn_state = MESH_LPN_STATE_IDLE
             THEN WICED_SLEEP_NOT_ALLOWED
             ELSE WICED_SLEEP_MAX_TIME_TO_SLEEP
        ELSE IF a.lpn_state = MESH_LPN_STATE_IDLE
             THEN IF b = "CYW20835B1"
                  THEN WICED_SLEEP_ALLOWED_WITH_SHUTDOWN
                  ELSE WICED_SLEEP_ALLOWED_WITHOUT_SHUTDOWN
             ELSE WICED_SLEEP_NOT_ALLOWED]

\* SLEEP_PERMISSION answers "allowed" without looking at lpn_state.
sleep_poll_permission_unconditional(b, a, type) ==
    [app_state |-> a,
     ret |->
        IF type = WICED_SLEEP_POLL_TIME_TO_SLEEP
        THEN IF a.lpn_state = MESH_LPN_STATE_NOT_IDLE
             THEN WICED_SLEEP_NOT_ALLOWED
             ELSE WICED_SLEEP_MAX_TIME_TO_SLEEP
        ELSE IF b = "CYW20835B1"
             THEN WICED_SLEEP_ALLOWED_WITH_SHUTDOWN
             ELSE WICED_SLEEP_ALLOWED_WITHOUT_SHUTDOWN]

\* Granting SLEEP_PERMISSION consumes the IDLE state.
sleep_poll_consumes_idle(b, a, type) ==
    [app_state |->
        IF type = WICED_SLEEP_POLL_SLEEP_PERMISSION
        THEN [a EXCEPT !.lpn_state = MESH_LPN_STATE_NOT_IDLE]
        ELSE a,
     ret |->
        IF type = WICED_SLEEP_POLL_TIME_TO_SLEEP
        THEN IF a.lpn_state = MESH_LPN_STATE_NOT_IDLE
             THEN WICED_SLEEP_NOT_ALLOWED
             ELSE WICED_SLEEP_MAX_TIME_TO_SLEEP
        ELSE IF a.lpn_state = MESH_LPN_STATE_IDLE
             THEN IF b = "CYW20835B1"
                  THEN WICED_SLEEP_ALLOWED_WITH_SHUTDOWN
                  ELSE WICED_SLEEP_ALLOWED_WITHOUT_SHUTDOWN
             ELSE WICED_SLEEP_NOT_ALLOWED]

\* TIME_TO_SLEEP answers with the wake timer's time left while it is armed.
sleep_poll_returns_remaining(b, a, type) ==
    [app_state |-> a,
     ret |->
        IF type = WICED_SLEEP_POLL_TIME_TO_SLEEP
        THEN IF a.lpn_state = MESH_LPN_STATE_NOT_IDLE
             THEN WICED_SLEEP_NOT_ALLOWED
             ELSE IF a.lpn_wake_timer.armed /\ a.lpn_wake_timer.remaining > 0
                  THEN a.lpn_wake_timer.remaining
                  ELSE WICED_SLEEP_MAX_TIME_TO_SLEEP
        ELSE IF a.lpn_state = MESH_LPN_STATE_IDLE
             THEN IF b = "CYW20835B1"
                  THEN WICED_SLEEP_ALLOWED_WITH_SHUTDOWN
                  ELSE WICED_SLEEP_ALLOWED_WITHOUT_SHUTDOWN
             ELSE WICED_SLEEP_NOT_ALLOWED]

mesh_low_power_led_sleep_poll(b, a, type) ==
    [app_state |-> a,
     ret |->
        CASE type = WICED_SLEEP_POLL_TIME_TO_SLEEP ->
                 IF a.lpn_state = MESH_LPN_STATE_NOT_IDLE
                 THEN WICED_SLEEP_NOT_ALLOWED
                 ELSE WICED_SLEEP_MAX_TIME_TO_SLEEP
          [] type = WICED_SLEEP_POLL_SLEEP_PERMISSION ->
                 IF a.lpn_state = MESH_LPN_STATE_IDLE
                 THEN IF b = "CYW20835B1"
                      THEN WICED_SLEEP_ALLOWED_WITH_SHUTDOWN
                      ELSE WICED_SLEEP_ALLOWED_WITHOUT_SHUTDOWN
                 ELSE WICED_SLEEP_NOT_ALLOWED
          [] OTHER -> WICED_SLEEP_NOT_ALLOWED]

(***************************************************************************)
(* mesh_low_power_led_message_handler and                                  *)
(* mesh_low_power_led_process_status: app_state after the event and the    *)
(* values handed to led_control_set_onoff, in order.                       *)
(***************************************************************************)
mesh_low_power_led_process_status(a, present_onoff) ==
    [app_state |-> a, led |-> <<present_onoff>>]

\* Variant of mesh_low_power_led_message_handler: the default case falls
\* into the status case, so every event drives the LED.
message_handler_any_event(a, event, present_onoff) ==
    mesh_low_power_led_process_status(a, present_onoff)

mesh_low_power_led_message_handler(a, event, present_onoff) ==
    IF event = WICED_BT_MESH_ONOFF_STATUS
    THEN mesh_low_power_led_process_status(a, present_onoff)
    ELSE [app_state |-> a, led |-> << >>]

(***************************************************************************)
(* The state after the C runtime has set up the globals                    *)
(***************************************************************************)
Init ==
    /\ build \in Builds
    /\ app_state = InitAppState
    /\ do_not_init_again = FALSE
    /\ platform = InitPlatform
    /\ elapsed = 0
    /\ last = NoCall
    /\ hist = InitHist

Call(op) == [NoCall EXCEPT !.op = op]

\* the chip runs: it is not in HID-off
Running == ~platform.hid_off

(***************************************************************************)
(* The mesh library calls mesh_app_init: at start, and again whenever the  *)
(* node's provisioning state changes.                                      *)
(***************************************************************************)
AppInit ==
    /\ Running
    /\ \E is_provisioned \in BOOLEAN, configure_ok \in BOOLEAN :
         LET r == mesh_app_init(app_state, do_not_init_again, platform,
                                is_provisioned, configure_ok)
         IN  /\ app_state' = r.app_state
             /\ do_not_init_again' = r.do_not_init_again
             /\ platform' = r.platform
    /\ last' = Call("init")
    /\ UNCHANGED <<build, elapsed, hist>>

(***************************************************************************)
(* The mesh library calls the LPN sleep hook once the application is       *)
(* initialised.  In the default build a duration at or above the threshold *)
(* asks the platform for HID-off, which the platform grants or rejects.    *)
(***************************************************************************)
Schedule ==
    /\ Running
    /\ do_not_init_again
    /\ \E d \in Durations, hid_ok \in BOOLEAN :
         LET r  == mesh_low_power_led_lpn_sleep(build, app_state, d)
             t  == app_state.lpn_wake_timer
             ok == r.hid # << >> /\ hid_ok
             answer == IF r.hid = << >> THEN "none"
                       ELSE IF hid_ok THEN "granted" ELSE "rejected"
         IN  /\ r.hid = << >> => hid_ok
             /\ app_state' = r.app_state
             /\ platform' = [platform EXCEPT !.hid_off = ok]
             /\ elapsed' = IF r.timer_ops # << >> THEN 0 ELSE elapsed
             /\ last' = [Call("schedule") EXCEPT !.d = d, !.hid = r.hid,
                                                 !.hid_result = answer,
                                                 !.timer_ops = r.timer_ops]
             /\ hist' = [hist EXCEPT
                           !.woken = FALSE,
                           !.fires = 0,
                           !.sched_d = d,
                           !.epoch = 1 - @,
                           !.rearm =
                              IF /\ t.armed
                                 /\ t.duration < HID_OFF_THRESHOLD
                                 /\ d < HID_OFF_THRESHOLD
                              THEN <<t.duration, d>>
                              ELSE << >>]
    /\ UNCHANGED <<build, do_not_init_again>>

(***************************************************************************)
(* Time passes while the wake timer counts down.                           *)
(***************************************************************************)
Tick ==
    /\ Running
    /\ app_state.lpn_wake_timer.armed
    /\ \E delta \in {TickQuantum, app_state.lpn_wake_timer.remaining} :
         /\ delta > 0
         /\ delta <= app_state.lpn_wake_timer.remaining
         /\ app_state' = [app_state EXCEPT !.lpn_wake_timer.remaining = @ - delta]
         /\ elapsed' = elapsed + delta
    /\ last' = Call("tick")
    /\ UNCHANGED <<build, do_not_init_again, platform, hist>>

(***************************************************************************)
(* The wake timer reaches its deadline: the platform calls wakeup_timer_cb.*)
(***************************************************************************)
Expire ==
    /\ Running
    /\ app_state.lpn_wake_timer.armed
    /\ app_state.lpn_wake_timer.remaining = 0
    /\ app_state' = wakeup_timer_cb(app_state)
    /\ last' = Call("expire")
    /\ hist' = [hist EXCEPT !.woken = TRUE, !.fires = @ + 1,
                            !.fired_at = elapsed]
    /\ UNCHANGED <<build, do_not_init_again, platform, elapsed>>

(***************************************************************************)
(* The power manager asks the registered sleep_permit_handler.             *)
(***************************************************************************)
Poll ==
    /\ Running
    /\ platform.sleep_permit_handler
    /\ \E type \in PollTypes :
         LET r == mesh_low_power_led_sleep_poll(build, app_state, type)
         IN  /\ app_state' = r.app_state
             /\ last' = [Call("poll") EXCEPT !.type = type, !.ret = r.ret]
    /\ UNCHANGED <<build, do_not_init_again, platform, elapsed, hist>>

(***************************************************************************)
(* The models library delivers an event to the registered message handler. *)
(***************************************************************************)
Message ==
    /\ Running
    /\ platform.onoff_handler
    /\ \E event \in Events, present_onoff \in {0, 1} :
         LET r == mesh_low_power_led_message_handler(app_state, event, present_onoff)
         IN  /\ app_state' = r.app_state
             /\ platform' = [platform EXCEPT !.led =
                                IF r.led = << >> THEN @ ELSE r.led[Len(r.led)]]
             /\ last' = [Call("message") EXCEPT !.event = event,
                                                !.d = present_onoff,
                                                !.led = r.led]
    /\ UNCHANGED <<build, do_not_init_again, elapsed, hist>>

(***************************************************************************)
(* The chip comes out of HID-off (button or timed wake): it restarts, the  *)
(* globals get their initial values again and the library calls            *)
(* mesh_app_init, which sees a reset reason other than power-on.           *)
(***************************************************************************)
HidOffWake ==
    /\ platform.hid_off
    /\ app_state' = InitAppState
    /\ do_not_init_again' = FALSE
    /\ platform' = [InitPlatform EXCEPT !.led = platform.led]
    /\ elapsed' = 0
    /\ last' = Call("hid_off_wake")
    /\ hist' = [InitHist EXCEPT !.woken = TRUE, !.epoch = hist.epoch]
    /\ UNCHANGED build

Next ==
    \/ AppInit
    \/ Schedule
    \/ Tick
    \/ Expire
    \/ Poll
    \/ Message
    \/ HidOffWake

Spec == Init /\ [][Next]_vars

(***************************************************************************)
(* The platform timer runs: while the wake timer is armed time keeps       *)
(* passing, and at the deadline the callback is delivered.                 *)
(***************************************************************************)
SpecLive == Spec /\ WF_vars(Tick) /\ WF_vars(Expire)

(***************************************************************************)
(* wakeup_timer_cb taken alone: the callback is applied, up to             *)
(* MaxCallbacks times in a row, to every app_state of an initialised       *)
(* application, whatever the state and whatever the timer holds.           *)
(***************************************************************************)
MaxCallbacks == 2

TimerValues ==
    {TimerStopped} \cup
    { [armed |-> TRUE, duration |-> d, remaining |-> d - k * TickQuantum] :
        <<d, k>> \in { <<d, k>> \in (Durations \ {WICED_SLEEP_MAX_TIME_TO_SLEEP})
                                    \X (0 .. 9) : k * TickQuantum <= d } }

InitCb ==
    /\ build \in Builds
    /\ \E s \in {MESH_LPN_STATE_NOT_IDLE, MESH_LPN_STATE_IDLE}, t \in TimerValues :
         app_state = [InitAppState EXCEPT !.lpn_sleep_config = SleepConfig,
                                          !.lpn_wake_timer = t,
                                          !.lpn_state = s]
    /\ do_not_init_again = TRUE
    /\ platform = [InitPlatform EXCEPT !.sleep_configure_calls = 1,
                                       !.sleep_permit_handler = TRUE,
                                       !.init_timer_calls = 1,
                                       !.onoff_handler = TRUE]
    /\ elapsed = app_state.lpn_wake_timer.duration - app_state.lpn_wake_timer.remaining
    /\ last = NoCall
    /\ hist = InitHist

InvokeWakeupTimerCb ==
    /\ hist.fires < MaxCallbacks
    /\ app_state' = wakeup_timer_cb(app_state)
    /\ last' = Call("expire")
    /\ hist' = [hist EXCEPT !.woken = TRUE, !.fires = @ + 1,
                            !.fired_at = elapsed]
    /\ UNCHANGED <<build, do_not_init_again, platform, elapsed>>

NextCb == InvokeWakeupTimerCb

SpecCb == InitCb /\ [][NextCb]_vars

(***************************************************************************)
(* Properties                                                              *)
(***************************************************************************)
LpnState == app_state.lpn_state
WakeTimer == app_state.lpn_wake_timer

\* the call that has just returned
JustScheduled == last.op = "schedule"
JustPolled(type) == last.op = "poll" /\ last.type = type

\* C1: after a schedule call with a duration below the threshold, from any
\* prior state, the LPN state is IDLE and the wake timer is armed with
\* exactly that duration.
C1_ShortScheduleArmsTimer ==
    (JustScheduled /\ last.d < HID_OFF_THRESHOLD) =>
        /\ LpnState = MESH_LPN_STATE_IDLE
        /\ WakeTimer = [armed |-> TRUE, duration |-> last.d, remaining |-> last.d]
        /\ last.timer_ops = <<"stop", "start">>

\* a rearm over a pending timer of another duration has just returned
C1_Witness ==
    /\ JustScheduled
    /\ last.d = 30000
    /\ hist.rearm = <<50000, 30000>>
    /\ WakeTimer.armed
    /\ WakeTimer.duration = 30000
    /\ LpnState = MESH_LPN_STATE_IDLE

\* C2 as stated, for the default build: after a schedule call with a duration
\* at or above the threshold the LPN state is IDLE and the wake timer is not
\* armed.
C2_LongScheduleIdleAndDisarmed ==
    (JustScheduled /\ build = "DEFAULT" /\ last.d >= HID_OFF_THRESHOLD) =>
        /\ LpnState = MESH_LPN_STATE_IDLE
        /\ ~WakeTimer.armed

\* C2 amended: in the default build a schedule call with a duration at or
\* above the threshold (the boundary 120000 included) leaves the LPN state
\* and the wake timer exactly as they were before the call.
C2_LongScheduleLeavesState ==
    [][(last'.op = "schedule" /\ build = "DEFAULT"
            /\ last'.d >= HID_OFF_THRESHOLD) =>
          /\ app_state'.lpn_state = app_state.lpn_state
          /\ app_state'.lpn_wake_timer = app_state.lpn_wake_timer
          /\ last'.timer_ops = << >>]_vars

\* the boundary duration has just been scheduled in the default build and the
\* state is still NOT_IDLE
C2_Witness ==
    /\ JustScheduled
    /\ build = "DEFAULT"
    /\ last.d = HID_OFF_THRESHOLD
    /\ LpnState = MESH_LPN_STATE_NOT_IDLE
    /\ ~WakeTimer.armed

\* C3: in every reachable state a TIME_TO_SLEEP query is answered "not
\* allowed" exactly when the LPN state is NOT_IDLE, and with the maximum
\* time to sleep when it is IDLE; an answer just given is that answer.
C3_TimeToSleepOracle ==
    LET ret == mesh_low_power_led_sleep_poll(
                   build, app_state, WICED_SLEEP_POLL_TIME_TO_SLEEP).ret
    IN  /\ (ret = WICED_SLEEP_NOT_ALLOWED) <=> (LpnState = MESH_LPN_STATE_NOT_IDLE)
        /\ LpnState = MESH_LPN_STATE_IDLE => ret = WICED_SLEEP_MAX_TIME_TO_SLEEP
        /\ JustPolled(WICED_SLEEP_POLL_TIME_TO_SLEEP) => last.ret = ret

C3_Witness ==
    /\ JustPolled(WICED_SLEEP_POLL_TIME_TO_SLEEP)
    /\ LpnState = MESH_LPN_STATE_IDLE
    /\ last.ret = WICED_SLEEP_MAX_TIME_TO_SLEEP

\* C4: in every reachable state a SLEEP_PERMISSION query is answered with an
\* "allowed" value exactly when the LPN state is IDLE, and with the default
\* WICED_SLEEP_NOT_ALLOWED when it is NOT_IDLE.
AllowedValues ==
    {WICED_SLEEP_ALLOWED_WITHOUT_SHUTDOWN, WICED_SLEEP_ALLOWED_WITH_SHUTDOWN}

C4_SleepPermissionOracle ==
    LET ret == mesh_low_power_led_sleep_poll(
                   build, app_state, WICED_SLEEP_POLL_SLEEP_PERMISSION).ret
    IN  /\ (ret \in AllowedValues) <=> (LpnState = MESH_LPN_STATE_IDLE)
        /\ LpnState = MESH_LPN_STATE_NOT_IDLE => ret = WICED_SLEEP_NOT_ALLOWED
        /\ JustPolled(WICED_SLEEP_POLL_SLEEP_PERMISSION) => last.ret = ret

C4_Witness ==
    /\ JustPolled(WICED_SLEEP_POLL_SLEEP_PERMISSION)
    /\ LpnState = MESH_LPN_STATE_IDLE
    /\ last.ret \in AllowedValues

C6_RearmCancelsPending ==
    hist.rearm # << >> =>
        LET d2 == hist.rearm[2]
        IN  /\ hist.fires <= 1
            /\ WakeTimer.armed =>
                  /\ WakeTimer.duration = d2
                  /\ WakeTimer.remaining + elapsed = d2
                  /\ hist.fires = 0
            /\ ~WakeTimer.armed =>
                  /\ hist.fires = 1
                  /\ hist.fired_at = d2

\* Scenario C ran to the end: 50 s, then 30 s, then the one expiry at 30 s
C6_Witness ==
    /\ hist.rearm = <<50000, 30000>>
    /\ last.op = "expire"
    /\ hist.fires = 1
    /\ hist.fired_at = 30000
    /\ ~WakeTimer.armed

\* C7: the expiry callback, invoked from any state, leaves the LPN state
\* NOT_IDLE and the wake timer disarmed, and invoked again with no schedule
\* call in between it leaves app_state exactly as the first call left it.
C7_ExpiryIdempotent ==
    [][(last'.op = "expire" /\ hist'.fires = hist.fires + 1) =>
          /\ app_state'.lpn_state = MESH_LPN_STATE_NOT_IDLE
          /\ ~app_state'.lpn_wake_timer.armed
          /\ hist.fires >= 1 => app_state' = app_state]_vars

\* the callback has run twice in a row
C7_Witness ==
    /\ hist.fires = 2
    /\ last.op = "expire"
    /\ LpnState = MESH_LPN_STATE_NOT_IDLE
    /\ ~WakeTimer.armed

\* C8 as stated: when the platform rejects the HID-off request of a schedule
\* call, the request was issued once and the LPN state is IDLE on return.
C8_RejectedHidOffLeavesIdle ==
    (JustScheduled /\ last.hid_result = "rejected") =>
        /\ Len(last.hid) = 1
        /\ LpnState = MESH_LPN_STATE_IDLE

\* C8 amended: when the platform rejects the HID-off request of a schedule
\* call, the request was issued exactly once, with the call's duration, and
\* the LPN state and the wake timer are as they were before the call.
C8_RejectedHidOffLeavesState ==
    [][(last'.op = "schedule" /\ last'.hid_result = "rejected") =>
          /\ last'.d >= HID_OFF_THRESHOLD
          /\ last'.hid = <<HidOffRequest(last'.d)>>
          /\ app_state' = app_state
          /\ ~platform'.hid_off]_vars

\* a rejected request has just returned to a node that was and is NOT_IDLE
C8_Witness ==
    /\ JustScheduled
    /\ last.hid_result = "rejected"
    /\ Len(last.hid) = 1
    /\ LpnState = MESH_LPN_STATE_NOT_IDLE

\* C9: the LPN state is IDLE only if the wake timer is armed or the device
\* is committed to an indefinite deep sleep with an external wake source:
\* it is in HID-off, or (CYW20835B1) the latest schedule call asked for the
\* "no limit" duration with the GPIO wake source configured.
CommittedToDeepSleep ==
    \/ platform.hid_off
    \/ /\ build = "CYW20835B1"
       /\ hist.sched_d = WICED_SLEEP_MAX_TIME_TO_SLEEP
       /\ app_state.lpn_sleep_config.device_wake_source = WICED_SLEEP_WAKE_SOURCE_GPIO

C9_IdleOnlyWithWakeSource ==
    LpnState = MESH_LPN_STATE_IDLE => (WakeTimer.armed \/ CommittedToDeepSleep)

\* IDLE after the pending timer was cancelled and restarted
C9_Witness ==
    /\ LpnState = MESH_LPN_STATE_IDLE
    /\ WakeTimer.armed
    /\ WakeTimer.remaining < WakeTimer.duration
    /\ hist.rearm # << >>

\* C10: a poll call of either type changes nothing of the application: the
\* LPN state, the wake timer (armed flag, duration, time left) and the rest
\* of app_state, the latch and the platform are as before the call.
C10_PollIsPure ==
    [][last'.op = "poll" =>
          /\ app_state' = app_state
          /\ do_not_init_again' = do_not_init_again
          /\ platform' = platform]_vars

\* permission has just been granted and the timer is still counting
C10_Witness ==
    /\ JustPolled(WICED_SLEEP_POLL_SLEEP_PERMISSION)
    /\ last.ret \in AllowedValues
    /\ LpnState = MESH_LPN_STATE_IDLE
    /\ WakeTimer.armed
    /\ WakeTimer.remaining > 0

\* C11: while the latch persists, however many times mesh_app_init is
\* called, wiced_sleep_configure and wiced_init_timer have each been called
\* exactly once, and a call made with the latch set leaves app_state (the
\* LPN state and the wake timer with it), the latch and both counts as they
\* were.
C11_InitOnce ==
    [][last'.op = "init" =>
          /\ do_not_init_again'
          /\ platform'.sleep_configure_calls = 1
          /\ platform'.init_timer_calls = 1
          /\ do_not_init_again =>
                /\ app_state' = app_state
                /\ platform'.sleep_configure_calls = platform.sleep_configure_calls
                /\ platform'.init_timer_calls = platform.init_timer_calls
                /\ platform'.sleep_permit_handler = platform.sleep_permit_handler]_vars

\* mesh_app_init has just been called again on a node asleep on its timer
C11_Witness ==
    /\ last.op = "init"
    /\ LpnState = MESH_LPN_STATE_IDLE
    /\ WakeTimer.armed
    /\ WakeTimer.remaining < WakeTimer.duration
    /\ platform.sleep_configure_calls = 1
    /\ platform.init_timer_calls = 1

\* C12: an on/off status event, in any LPN state, hands the event's present
\* on/off value to the LED driver exactly once; an event of another type
\* never reaches the driver; either way app_state (the LPN state and the
\* wake timer with it) is unchanged.
C12_StatusDrivesLedOnly ==
    [][last'.op = "message" =>
          /\ app_state' = app_state
          /\ last'.event = WICED_BT_MESH_ONOFF_STATUS =>
                /\ last'.led = <<last'.d>>
                /\ platform'.led = last'.d
          /\ last'.event # WICED_BT_MESH_ONOFF_STATUS =>
                /\ last'.led = << >>
                /\ platform'.led = platform.led]_vars

\* Scenario D on a sleeping node: status "on" while IDLE with the timer armed
C12_Witness ==
    /\ last.op = "message"
    /\ last.event = WICED_BT_MESH_ONOFF_STATUS
    /\ last.d = 1
    /\ last.led = <<1>>
    /\ platform.led = 1
    /\ LpnState = MESH_LPN_STATE_IDLE
    /\ WakeTimer.armed

\* C13: with the platform timer running, a schedule call with a duration
\* below the threshold is followed, unless another schedule call comes
\* first, by the expiry callback and the LPN state NOT_IDLE; and from a wake
\* until the next schedule call SLEEP_PERMISSION is not answered "allowed".
PermissionAnswer ==
    mesh_low_power_led_sleep_poll(
        build, app_state, WICED_SLEEP_POLL_SLEEP_PERMISSION).ret

C13_ShortSleepEndsInWake ==
    /\ \A e \in {0, 1} :
         (JustScheduled /\ last.d < HID_OFF_THRESHOLD /\ hist.epoch = e)
            ~> \/ hist.epoch # e
               \/ /\ hist.fires = 1
                  /\ LpnState = MESH_LPN_STATE_NOT_IDLE
                  /\ PermissionAnswer \notin AllowedValues
    /\ [](hist.woken =>
            /\ PermissionAnswer \notin AllowedValues
            /\ JustPolled(WICED_SLEEP_POLL_SLEEP_PERMISSION)
                  => last.ret \notin AllowedValues)

\* Scenario A ran to the end: 50 s scheduled, expiry at 50 s, permission refused
C13_Witness ==
    /\ hist.sched_d = 50000
    /\ hist.rearm = << >>
    /\ hist.fires = 1
    /\ hist.fired_at = 50000
    /\ JustPolled(WICED_SLEEP_POLL_SLEEP_PERMISSION)
    /\ last.ret = WICED_SLEEP_NOT_ALLOWED

\* C14: the LPN state goes from NOT_IDLE to IDLE only in a schedule step and
\* from IDLE to NOT_IDLE only in a wake step (the expiry callback, or the
\* restart out of HID-off); init, poll, message and the passing of time
\* never change it.
C14_StateOwners ==
    [][/\ (app_state.lpn_state = MESH_LPN_STATE_NOT_IDLE
              /\ app_state'.lpn_state = MESH_LPN_STATE_IDLE)
          => last'.op = "schedule"
       /\ (app_state.lpn_state = MESH_LPN_STATE_IDLE
              /\ app_state'.lpn_state = MESH_LPN_STATE_NOT_IDLE)
          => last'.op \in {"expire", "hid_off_wake"}
       /\ last'.op \in {"init", "poll", "message", "tick"}
          => app_state'.lpn_state = app_state.lpn_state]_vars

\* the expiry callback has just taken a node, scheduled for 50 s and sent a
\* status "on" meanwhile, from IDLE to NOT_IDLE
C14_Witness ==
    /\ last.op = "expire"
    /\ hist.sched_d = 50000
    /\ hist.fires = 1
    /\ LpnState = MESH_LPN_STATE_NOT_IDLE
    /\ platform.led = 1

\* C15 as stated, for every build: a schedule call with a duration at or
\* above the threshold issues exactly one HID-off request, with that duration
\* and the button GPIO, and makes no timer call; one below the threshold
\* issues no request.
C15_DeepSleepRequest ==
    JustScheduled =>
        /\ last.d >= HID_OFF_THRESHOLD =>
              /\ last.hid = <<HidOffRequest(last.d)>>
              /\ last.timer_ops = << >>
        /\ last.d < HID_OFF_THRESHOLD => last.hid = << >>

\* C15 amended: the same, in the default build.
C15_DeepSleepRequestDefaultBuild ==
    (JustScheduled /\ build = "DEFAULT") =>
        /\ last.d >= HID_OFF_THRESHOLD =>
              /\ last.hid = <<HidOffRequest(last.d)>>
              /\ last.hid[1].wake_gpio = WICED_GPIO_PIN_BUTTON
              /\ last.timer_ops = << >>
        /\ last.d < HID_OFF_THRESHOLD => last.hid = << >>

\* Scenario B over a pending timer: 180 s asked, one request out, timer untouched
C15_Witness ==
    /\ JustScheduled
    /\ build = "DEFAULT"
    /\ last.d = 180000
    /\ last.hid = <<HidOffRequest(180000)>>
    /\ WakeTimer.armed
    /\ WakeTimer.duration = 50000

\* C16: from boot until the first schedule call the LPN state is NOT_IDLE and
\* the wake timer is not armed, and both queries are refused, whatever init
\* calls and status events have occurred.
BeforeFirstSchedule == hist.sched_d = -1

C16_NoSleepBeforeFirstSchedule ==
    BeforeFirstSchedule =>
        /\ LpnState = MESH_LPN_STATE_NOT_IDLE
        /\ ~WakeTimer.armed
        /\ \A type \in PollTypes :
              mesh_low_power_led_sleep_poll(build, app_state, type).ret
                 = WICED_SLEEP_NOT_ALLOWED
        /\ last.op = "poll" => last.ret = WICED_SLEEP_NOT_ALLOWED

\* asked before any schedule call, after an init and a status "on"
C16_Witness ==
    /\ BeforeFirstSchedule
    /\ ~hist.woken
    /\ JustPolled(WICED_SLEEP_POLL_TIME_TO_SLEEP)
    /\ last.ret = WICED_SLEEP_NOT_ALLOWED
    /\ platform.led = 1

\* C17: the oracle's answer depends on the query type and the LPN state
\* alone: in every reachable state, replacing the wake timer and the on/off
\* values by any others leaves both answers the same, an answer just given
\* is that answer, and every "allowed" answer is the build's one variant.
AllowedVariant ==
    IF build = "CYW20835B1"
    THEN WICED_SLEEP_ALLOWED_WITH_SHUTDOWN
    ELSE WICED_SLEEP_ALLOWED_WITHOUT_SHUTDOWN

C17_AnswerDependsOnStateOnly ==
    \A type \in PollTypes :
       LET ret == mesh_low_power_led_sleep_poll(build, app_state, type).ret
       IN  /\ \A t \in TimerValues, present \in {0, 1}, target \in {0, 1} :
                mesh_low_power_led_sleep_poll(
                    build,
                    [app_state EXCEPT !.lpn_wake_timer = t,
                                      !.present_onoff = present,
                                      !.target_onoff = target],
                    type).ret = ret
           /\ JustPolled(type) => last.ret = ret
           /\ ret \in AllowedValues => ret = AllowedVariant

\* maximum time to sleep answered while the timer has 10 s left
C17_Witness ==
    /\ JustPolled(WICED_SLEEP_POLL_TIME_TO_SLEEP)
    /\ last.ret = WICED_SLEEP_MAX_TIME_TO_SLEEP
    /\ WakeTimer.armed
    /\ WakeTimer.remaining = 10000

\* C18: in both builds, between event handlers, the wake timer is armed only
\* if the LPN state is IDLE.
C18_ArmedOnlyWhenIdle ==
    WakeTimer.armed => LpnState = MESH_LPN_STATE_IDLE

\* CYW20835B1: a timer at its deadline, not yet delivered, after a "no limit" call
C18_Witness ==
    /\ build = "CYW20835B1"
    /\ WakeTimer.armed
    /\ WakeTimer.remaining = 0
    /\ WakeTimer.duration = 180000
    /\ hist.sched_d = WICED_SLEEP_MAX_TIME_TO_SLEEP
    /\ LpnState = MESH_LPN_STATE_IDLE

\* C19: in the CYW20835B1 build every schedule call sets IDLE; the wake timer
\* is stopped and restarted with the duration exactly when the duration is
\* not WICED_SLEEP_MAX_TIME_TO_SLEEP, and with that value the timer is left
\* as it was.
C19_ShutdownSleepBuild ==
    [][(last'.op = "schedule" /\ build = "CYW20835B1") =>
          /\ app_state'.lpn_state = MESH_LPN_STATE_IDLE
          /\ last'.hid = << >>
          /\ last'.d # WICED_SLEEP_MAX_TIME_TO_SLEEP =>
                /\ last'.timer_ops = <<"stop", "start">>
                /\ app_state'.lpn_wake_timer =
                      [armed |-> TRUE, duration |-> last'.d, remaining |-> last'.d]
          /\ last'.d = WICED_SLEEP_MAX_TIME_TO_SLEEP =>
                /\ last'.timer_ops = << >>
                /\ app_state'.lpn_wake_timer = app_state.lpn_wake_timer]_vars

\* "no limit" has just been scheduled over a timer that is part way down
C19_Witness ==
    /\ build = "CYW20835B1"
    /\ JustScheduled
    /\ last.d = WICED_SLEEP_MAX_TIME_TO_SLEEP
    /\ LpnState = MESH_LPN_STATE_IDLE
    /\ WakeTimer.armed
    /\ WakeTimer.remaining > 0
    /\ WakeTimer.remaining < WakeTimer.duration

====
